---------------------------- MODULE Spec2Model ----------------------------
(***************************************************************************)
(* Icon generators of the Web Automation Assistant Firefox extension.      *)
(*                                                                         *)
(*   firefox-extension/icons/generate-icons-from-svg.py  ("svg")           *)
(*       rasterizer (draw_circle, draw_triangle), PNG encoder              *)
(*       (create_png), icon recipes and the generation loops               *)
(*   firefox-extension/generate_icons.py                 ("pil")           *)
(*       the same eight files, drawn and saved through PIL into icons/     *)
(*   firefox-extension/icons/generate-base64-icons.py    ("base64")        *)
(*       the same eight file names, each a fixed 1x1 PNG                   *)
(*                                                                         *)
(* The specifications share the variables:                                 *)
(*   SpecPng   create_png applied to small pixel buffers                   *)
(*   SpecDraw  draw_circle / draw_triangle applied to small buffers        *)
(*   Spec      a run (and re-runs) of one generator script against a       *)
(*             file system whose operations may fail                       *)
(*   SpecFair  Spec, with a started script running on to its end           *)
(*                                                                         *)
(* A Python bytes / bytearray value is a sequence of numbers 0..255.       *)
(***************************************************************************)
EXTENDS Integers, Sequences, FiniteSets, TLC

VARIABLES
    width, height,  \* dimensions of the pixel buffer (SpecPng, SpecDraw)
    pixels,         \* the RGBA buffer, width*height*4 bytes, row-major
    call,           \* the call applied to the buffer and its arguments
    result,         \* what the call returned
    script,         \* which generator script runs (Spec)
    pc,             \* position of the running script
    run,            \* number of the current run of the script
    dirs,           \* directories that exist
    files,          \* path -> content, for the files that exist
    fsops,          \* the file system calls this run has made, in order
    stdout          \* lines this run has printed

vars == <<width, height, pixels, call, result,
          script, pc, run, dirs, files, fsops, stdout>>

(***************************************************************************)
(* Bounds of the model.                                                    *)
(***************************************************************************)
MaxPixels == 6      \* SpecPng: buffers of at most MaxPixels pixels
MaxSide == 2        \* SpecDraw: buffers 1..MaxSide wide and high; centres,
                    \* radii and vertices range over -1..MaxSide
MaxRuns == 2        \* Spec: the script is run at most this many times

(***************************************************************************)
(* Colours: the 4-byte literals of generate-icons-from-svg.py.             *)
(***************************************************************************)
TRANSPARENT == <<0, 0, 0, 0>>          \* b'\x00\x00\x00\x00'
BLUE_DARK   == <<30, 64, 175, 255>>    \* b'\x1e\x40\xaf\xff'
BLUE_LIGHT  == <<59, 130, 246, 255>>   \* b'\x3b\x82\xf6\xff'
RED         == <<239, 68, 68, 255>>    \* b'\xef\x44\x44\xff'
WHITE_SEMI  == <<255, 255, 255, 176>>  \* b'\xff\xff\xff\xb0'
GREEN       == <<16, 185, 129, 255>>   \* b'\x10\xb9\x81\xff'
RED_DARK    == <<127, 29, 29, 255>>    \* b'\x7f\x1d\x1d\xff'
RED_PURE    == <<255, 0, 0, 255>>      \* b'\xff\x00\x00\xff'
WHITE       == <<255, 255, 255, 255>>  \* b'\xff\xff\xff\xff'

(***************************************************************************)
(* Bytes.                                                                  *)
(***************************************************************************)
Min(a, b) == IF a <= b THEN a ELSE b
Max(a, b) == IF a >= b THEN a ELSE b

\* a ^ b on the low `bits` bits
RECURSIVE XorBits(_, _, _)
XorBits(a, b, bits) ==
    IF bits = 0 THEN 0
    ELSE (((a % 2) + (b % 2)) % 2) + 2 * XorBits(a \div 2, b \div 2, bits - 1)

Xor8(a, b) == XorBits(a, b, 8)

\* bytewise a ^ b of two byte strings of equal length
XorBytes(a, b) == [i \in 1..Len(a) |-> Xor8(a[i], b[i])]

\* struct.pack('>I', n), 0 <= n < 2^31
pack_I(n) ==
    <<(n \div 16777216) % 256, (n \div 65536) % 256, (n \div 256) % 256, n % 256>>

\* struct.pack('>B', n)
pack_B(n) == <<n % 256>>

(***************************************************************************)
(* zlib.crc32.  A CRC value does not fit TLC's 32-bit signed integers: the *)
(* register is held as its four bytes, most significant first, which is    *)
(* also what struct.pack('>I', crc) emits.                                 *)
(***************************************************************************)
CrcPoly == <<237, 184, 131, 32>>        \* 0xEDB88320

\* c >> 1 on the four bytes
CrcShr1(c) ==
    <<c[1] \div 2,
      (c[1] % 2) * 128 + c[2] \div 2,
      (c[2] % 2) * 128 + c[3] \div 2,
      (c[3] % 2) * 128 + c[4] \div 2>>

CrcBit(c) == IF c[4] % 2 = 1 THEN XorBytes(CrcShr1(c), CrcPoly) ELSE CrcShr1(c)

CrcTable ==
    [i \in 0..255 |->
        CrcBit(CrcBit(CrcBit(CrcBit(CrcBit(CrcBit(CrcBit(CrcBit(<<0, 0, 0, i>>))))))))]

\* one byte into the register: table[(c ^ b) & 0xff] ^ (c >> 8)
CrcByte(c, b) == XorBytes(CrcTable[Xor8(c[4], b)], <<0, c[1], c[2], c[3]>>)

\* the register after bytes lo..hi of s; the left half is evaluated first
RECURSIVE CrcRange(_, _, _, _)
CrcRange(c, s, lo, hi) ==
    IF lo > hi THEN c
    ELSE IF lo = hi THEN CrcByte(c, s[lo])
    ELSE LET mid == (lo + hi) \div 2
         IN CHOOSE r \in {CrcRange(l, s, mid + 1, hi) :
                              l \in {CrcRange(c, s, lo, mid)}} : TRUE

zlib_crc32(data) ==
    XorBytes(CrcRange(<<255, 255, 255, 255>>, data, 1, Len(data)),
             <<255, 255, 255, 255>>)

(***************************************************************************)
(* zlib.compress(data, 9).  The library call is modelled by a zlib stream  *)
(* that decodes to data: the level-9 header, one stored deflate block and  *)
(* the Adler-32 of data.  The bytes deflate chooses at level 9 differ; the *)
(* encoder only measures and checksums what is returned.                   *)
(***************************************************************************)
RECURSIVE AdlerRange(_, _, _, _)
AdlerRange(a, s, lo, hi) ==
    IF lo > hi THEN a
    ELSE IF lo = hi
         THEN LET s1 == (a[1] + s[lo]) % 65521
              IN <<s1, (a[2] + s1) % 65521>>
    ELSE LET mid == (lo + hi) \div 2
         IN CHOOSE r \in {AdlerRange(l, s, mid + 1, hi) :
                              l \in {AdlerRange(a, s, lo, mid)}} : TRUE

zlib_adler32(data) ==
    LET a == AdlerRange(<<1, 0>>, data, 1, Len(data))
    IN <<a[2] \div 256, a[2] % 256, a[1] \div 256, a[1] % 256>>

zlib_compress(data) ==
    LET n == Len(data)
    IN <<120, 218>>
       \o <<1, n % 256, n \div 256, 255 - (n % 256), 255 - (n \div 256)>>
       \o data
       \o zlib_adler32(data)

(***************************************************************************)
(* create_png                                                              *)
(***************************************************************************)
signature == <<137, 80, 78, 71, 13, 10, 26, 10>>    \* b'\x89PNG\r\n\x1a\n'
IHDR == <<73, 72, 68, 82>>                          \* b'IHDR'
IDAT == <<73, 68, 65, 84>>                          \* b'IDAT'
IEND == <<73, 69, 78, 68>>                          \* b'IEND'

\* pixels[lo:hi], 0 <= lo <= hi: a slice is cut to the buffer's end
Slice(s, lo, hi) == SubSeq(s, Min(lo, Len(s)) + 1, Min(hi, Len(s)))

\* mutant of ihdr_data: colour type 2 (RGB, no alpha channel)
ihdr_data_rgb(w, h) ==
    pack_I(w) \o pack_I(h) \o pack_B(8) \o pack_B(2) \o pack_B(0) \o pack_B(0) \o pack_B(0)

ihdr_data(w, h) ==
    pack_I(w) \o pack_I(h) \o pack_B(8) \o pack_B(6) \o pack_B(0) \o pack_B(0) \o pack_B(0)

ihdr_chunk(w, h) ==
    pack_I(13) \o IHDR \o ihdr_data(w, h) \o zlib_crc32(IHDR \o ihdr_data(w, h))

\* one scanline: filter byte 0, then the row's pixels
RECURSIVE raw_row(_, _, _, _)
raw_row(w, px, y, x) ==
    IF x >= w THEN <<>>
    ELSE Slice(px, (y * w + x) * 4, (y * w + x) * 4 + 4) \o raw_row(w, px, y, x + 1)

RECURSIVE raw_rows(_, _, _, _)
raw_rows(w, h, px, y) ==
    IF y >= h THEN <<>>
    ELSE <<0>> \o raw_row(w, px, y, 0) \o raw_rows(w, h, px, y + 1)

raw_data(w, h, px) == raw_rows(w, h, px, 0)

\* mutant of idat_chunk: the length field counts the uncompressed scanlines
idat_chunk_rawlen(w, h, px) ==
    LET compressed == zlib_compress(raw_data(w, h, px))
    IN pack_I(Len(raw_data(w, h, px))) \o IDAT \o compressed
       \o zlib_crc32(IDAT \o compressed)

idat_chunk(w, h, px) ==
    LET compressed == zlib_compress(raw_data(w, h, px))
    IN pack_I(Len(compressed)) \o IDAT \o compressed \o zlib_crc32(IDAT \o compressed)

iend_chunk == pack_I(0) \o IEND \o zlib_crc32(IEND)

create_png(w, h, px) == signature \o ihdr_chunk(w, h) \o idat_chunk(w, h, px) \o iend_chunk


(***************************************************************************)
(* Python sequence indexing, as the rasterizer uses it.                    *)
(***************************************************************************)
\* a slice bound i on a sequence of length n
SliceBound(i, n) == IF i < 0 THEN Max(i + n, 0) ELSE Min(i, n)

\* s[lo:hi]
GetSlice(s, lo, hi) ==
    LET start == SliceBound(lo, Len(s))
        stop  == Max(SliceBound(hi, Len(s)), start)
    IN SubSeq(s, start + 1, stop)

\* s[lo:hi] = val: the slice is replaced, whatever its and val's lengths
SetSlice(s, lo, hi, val) ==
    LET start == SliceBound(lo, Len(s))
        stop  == Max(SliceBound(hi, Len(s)), start)
    IN SubSeq(s, 1, start) \o val \o SubSeq(s, stop + 1, Len(s))

\* int(a / b) for b # 0: the quotient cut towards zero
TruncDiv(a, b) ==
    IF (a >= 0) = (b > 0) THEN (IF a >= 0 THEN a ELSE -a) \div (IF b > 0 THEN b ELSE -b)
    ELSE -((IF a >= 0 THEN a ELSE -a) \div (IF b > 0 THEN b ELSE -b))

(***************************************************************************)
(* The rasterizer.  A drawing call works on a state                        *)
(*    [pixels  |-> the buffer,                                             *)
(*     written |-> the <<x, y>> whose pixel the loop body has assigned,    *)
(*     raised  |-> "" or the exception that ended the call]                *)
(* and its arguments are a record a.                                       *)
(***************************************************************************)
Started(px) == [pixels |-> px, written |-> <<>>, raised |-> ""]

\* range(max(0, c - radius), min(limit, c + radius + 1)) of draw_circle
circle_start(c, radius) == Max(0, c - radius)
\* mutant of circle_stop: the range is not cut to the buffer's side
circle_stop_unclipped(limit, c, radius) == c + radius + 1
circle_stop(limit, c, radius) == Min(limit, c + radius + 1)

\* mutant of in_circle: the rim is left out
in_circle_strict(dx, dy, radius) == dx * dx + dy * dy < radius * radius
in_circle(dx, dy, radius) == dx * dx + dy * dy <= radius * radius

\* the body of the inner loop at (x, y)
circle_pixel(st, a, x, y) ==
    IF in_circle(x - a.cx, y - a.cy, a.radius)
    THEN LET idx == (y * a.width + x) * 4
         IN [st EXCEPT !.pixels = SetSlice(st.pixels, idx, idx + 4, a.color),
                       !.written = Append(st.written, <<x, y>>)]
    ELSE st

\* for x in range(x, stop) on row y
RECURSIVE circle_row(_, _, _, _, _)
circle_row(st, a, y, x, stop) ==
    IF x >= stop THEN st
    ELSE circle_row(circle_pixel(st, a, x, y), a, y, x + 1, stop)

\* for y in range(y, stop)
RECURSIVE circle_rows(_, _, _, _)
circle_rows(st, a, y, stop) ==
    IF y >= stop THEN st
    ELSE circle_rows(circle_row(st, a, y, circle_start(a.cx, a.radius),
                                circle_stop(a.width, a.cx, a.radius)),
                     a, y + 1, stop)

draw_circle(px, w, h, cx, cy, radius, color) ==
    LET a == [width |-> w, height |-> h, cx |-> cx, cy |-> cy,
              radius |-> radius, color |-> color]
    IN circle_rows(Started(px), a, circle_start(cy, radius), circle_stop(h, cy, radius))

\* sorted(points, key=lambda p: p[1]) on three points: stable
sorted_by_y(points) ==
    LET a == points[1]
        b == points[2]
        c == points[3]
    IN IF b[2] < a[2]
       THEN (IF c[2] < b[2] THEN <<c, b, a>>
             ELSE IF c[2] < a[2] THEN <<b, c, a>>
             ELSE <<b, a, c>>)
       ELSE (IF c[2] < a[2] THEN <<c, a, b>>
             ELSE IF c[2] < b[2] THEN <<a, c, b>>
             ELSE <<a, b, c>>)

\* int(p1[0] + t * (p2[0] - p1[0])) with t = (y - p1[1]) / (p2[1] - p1[1]).
\* Python computes it in doubles; on the coordinates of this model and on
\* the arrows of the four icon sizes the double result is the exact
\* quotient cut towards zero.
edge_x(p1, p2, y) ==
    TruncDiv(p1[1] * (p2[2] - p1[2]) + (y - p1[2]) * (p2[1] - p1[1]), p2[2] - p1[2])

\* the x_intersections of scanline y, in the order of the edges
RECURSIVE x_intersections(_, _, _)
x_intersections(edges, y, i) ==
    IF i > Len(edges) THEN <<>>
    ELSE LET p1 == edges[i][1]
             p2 == edges[i][2]
         IN IF p1[2] = p2[2] THEN x_intersections(edges, y, i + 1)
            ELSE IF y < Min(p1[2], p2[2]) \/ y > Max(p1[2], p2[2])
                 THEN x_intersections(edges, y, i + 1)
            ELSE <<edge_x(p1, p2, y)>> \o x_intersections(edges, y, i + 1)

SeqMin(s) == CHOOSE m \in {s[i] : i \in 1..Len(s)} : \A j \in 1..Len(s) : m <= s[j]
SeqMax(s) == CHOOSE m \in {s[i] : i \in 1..Len(s)} : \A j \in 1..Len(s) : m >= s[j]

\* mutant of blend: alpha taken as colour / 256
blend_256(existing, new, alpha) == (existing * (256 - alpha) + new * alpha) \div 256
\* int(existing * (1 - alpha) + new * alpha) with alpha = color[3] / 255.0.
\* For the alphas 0, 176 and 255 of the colours above the double result is
\* the exact quotient below, for every pair of bytes.
blend(existing, new, alpha) == (existing * (255 - alpha) + new * alpha) \div 255

\* the body of the inner loop at (x, y): the pixel is read as a slice and
\* assigned byte by byte
triangle_pixel(st, a, x, y) ==
    LET idx == (y * a.width + x) * 4
        existing == GetSlice(st.pixels, idx, idx + 4)
        at == IF idx < 0 THEN idx + Len(st.pixels) ELSE idx
    IN IF Len(existing) < 4
       THEN [st EXCEPT !.raised = "IndexError"]
       ELSE [st EXCEPT
                !.pixels = [st.pixels EXCEPT
                    ![at + 1] = blend(existing[1], a.color[1], a.color[4]),
                    ![at + 2] = blend(existing[2], a.color[2], a.color[4]),
                    ![at + 3] = blend(existing[3], a.color[3], a.color[4]),
                    ![at + 4] = Max(existing[4], a.color[4])],
                !.written = Append(st.written, <<x, y>>)]

\* for x in range(x, stop) on scanline y
RECURSIVE triangle_row(_, _, _, _, _)
triangle_row(st, a, y, x, stop) ==
    IF x >= stop \/ st.raised # "" THEN st
    ELSE triangle_row(triangle_pixel(st, a, x, y), a, y, x + 1, stop)

\* range(max(0, x_intersections[0]), min(width, x_intersections[-1] + 1))
triangle_start(xs) == Max(0, SeqMin(xs))
triangle_stop(limit, xs) == Min(limit, SeqMax(xs) + 1)

\* scanline y is skipped when it is outside the buffer
scanline_skipped(y, h) == y < 0 \/ y >= h

\* one scanline
triangle_scanline(st, a, pts, y) ==
    IF scanline_skipped(y, a.height) THEN st
    ELSE LET edges == <<<<pts[1], pts[2]>>, <<pts[2], pts[3]>>, <<pts[3], pts[1]>>>>
             xs == x_intersections(edges, y, 1)
         IN IF Len(xs) >= 2
            THEN triangle_row(st, a, y, triangle_start(xs), triangle_stop(a.width, xs))
            ELSE st

\* for y in range(y, stop)
RECURSIVE triangle_scan(_, _, _, _, _)
triangle_scan(st, a, pts, y, stop) ==
    IF y >= stop \/ st.raised # "" THEN st
    ELSE triangle_scan(triangle_scanline(st, a, pts, y), a, pts, y + 1, stop)

\* mutant of draw_triangle: neither the degenerate triangle nor a horizontal
\* edge is set aside before the division by p2[1] - p1[1]
draw_triangle_unguarded(px, w, h, points, color) ==
    LET pts == sorted_by_y(points)
        a == [width |-> w, height |-> h, color |-> color]
    IN IF pts[1][2] = pts[2][2] \/ pts[2][2] = pts[3][2]
       THEN [Started(px) EXCEPT !.raised = "ZeroDivisionError"]
       ELSE triangle_scan(Started(px), a, pts, pts[1][2], pts[3][2] + 1)

draw_triangle(px, w, h, points, color) ==
    LET pts == sorted_by_y(points)
        a == [width |-> w, height |-> h, color |-> color]
    IN IF pts[3][2] = pts[1][2]
       THEN Started(px)
       ELSE triangle_scan(Started(px), a, pts, pts[1][2], pts[3][2] + 1)

(***************************************************************************)
(* The icon recipes of generate-icons-from-svg.py.                         *)
(*                                                                         *)
(* create_icon(size) ends in create_png(width, height, bytes(pixels)),     *)
(* where pixels is a transparent buffer on which the recipe's shapes have  *)
(* been drawn in order.  The stream of the 128-pixel icon is 65 KB, so a   *)
(* recipe is kept as that call: the dimensions and the shapes.  The        *)
(* drawing and the encoding themselves are what SpecDraw and SpecPng run.  *)
(***************************************************************************)
\* int(n * 0.xx): Python multiplies in doubles; for the products the four
\* sizes give, the result is the exact n * xx \div 100
scaled(n, hundredths) == (n * hundredths) \div 100

circle(cx, cy, radius, color) ==
    [shape |-> "circle", cx |-> cx, cy |-> cy, radius |-> radius, color |-> color]

triangle(points, color) == [shape |-> "triangle", points |-> points, color |-> color]

\* mutant of draws_arrow: the arrow starts above 32
draws_arrow_above(size) == size > 32
\* if size >= 32: the play arrow of create_icon
draws_arrow(size) == size >= 32

\* if size >= 48: the corner dots
draws_corner_dots(size) == size >= 48

corner_dots(size, color) ==
    LET dot_radius == Max(2, size \div 25)
        margin == scaled(size, 23)
    IN <<circle(margin, margin, dot_radius, color),
         circle(size - margin, margin, dot_radius, color),
         circle(margin, size - margin, dot_radius, color),
         circle(size - margin, size - margin, dot_radius, color)>>

play_arrow(size) ==
    LET center == size \div 2
        arrow_size == scaled(size, 20)
        left == center - arrow_size
        right == center + arrow_size
        top == center - scaled(arrow_size, 70)
        bottom == center + scaled(arrow_size, 70)
    IN triangle(<<<<left, top>>, <<left, bottom>>, <<right, center>>>>, WHITE_SEMI)

create_icon(size) ==
    LET center == size \div 2
    IN [by |-> "create_png", width |-> size, height |-> size,
        shapes |->
            <<circle(center, center, scaled(size, 47), BLUE_DARK),
              circle(center, center, scaled(size, 45), BLUE_LIGHT),
              circle(center, center, scaled(size, 42), BLUE_DARK),
              circle(center, center, scaled(size, 15), RED)>>
            \o (IF draws_arrow(size) THEN <<play_arrow(size)>> ELSE <<>>)
            \o (IF draws_corner_dots(size) THEN corner_dots(size, GREEN) ELSE <<>>)]

create_recording_icon(size) ==
    LET center == size \div 2
    IN [by |-> "create_png", width |-> size, height |-> size,
        shapes |->
            <<circle(center, center, scaled(size, 47), RED_DARK),
              circle(center, center, scaled(size, 45), RED),
              circle(center, center, scaled(size, 42), RED_DARK),
              circle(center, center, scaled(size, 20), RED_PURE)>>
            \o (IF size >= 32
                THEN <<circle(center, center, scaled(size, 8), WHITE)>> ELSE <<>>)
            \o (IF draws_corner_dots(size) THEN corner_dots(size, RED) ELSE <<>>)]

\* the first 33 bytes of the stream create_icon(size) returns: create_png
\* puts the signature and the IHDR chunk first, whatever the pixels are
png_head(icon) == signature \o ihdr_chunk(icon.width, icon.height)

(***************************************************************************)
(* generate_icons.py draws with PIL and saves with Image.save.  The        *)
(* library's drawing and encoding are not modelled: a saved image is kept  *)
(* as what Image.new fixes of it and which recipe drew on it.              *)
(***************************************************************************)
pil_icon(variant, size) ==
    [by |-> "Image.save", mode |-> "RGBA", width |-> size, height |-> size,
     icon |-> variant]

(***************************************************************************)
(* generate-base64-icons.py: two fixed PNG files, base64 encoded.  A       *)
(* string is the sequence of its characters.                               *)
(***************************************************************************)
BLUE_PNG_BASE64 ==
    <<"i", "V", "B", "O", "R", "w", "0", "K", "G", "g", "o", "A", "A", "A",
      "A", "N", "S", "U", "h", "E", "U", "g", "A", "A", "A", "A", "E", "A",
      "A", "A", "A", "B", "C", "A", "Y", "A", "A", "A", "A", "f", "F", "c",
      "S", "J", "A", "A", "A", "A", "D", "U", "l", "E", "Q", "V", "R", "4",
      "2", "m", "N", "k", "Y", "P", "h", "f", "D", "w", "A", "C", "h", "w",
      "G", "A", "6", "0", "e", "6", "k", "g", "A", "A", "A", "A", "B", "J",
      "R", "U", "5", "E", "r", "k", "J", "g", "g", "g", "=", "=">>

RED_PNG_BASE64 ==
    <<"i", "V", "B", "O", "R", "w", "0", "K", "G", "g", "o", "A", "A", "A",
      "A", "N", "S", "U", "h", "E", "U", "g", "A", "A", "A", "A", "E", "A",
      "A", "A", "A", "B", "C", "A", "Y", "A", "A", "A", "A", "f", "F", "c",
      "S", "J", "A", "A", "A", "A", "D", "U", "l", "E", "Q", "V", "R", "4",
      "2", "m", "P", "8", "z", "8", "B", "Q", "D", "w", "A", "E", "h", "Q",
      "G", "A", "h", "K", "m", "M", "I", "Q", "A", "A", "A", "A", "B", "J",
      "R", "U", "5", "E", "r", "k", "J", "g", "g", "g", "=", "=">>

Base64Alphabet ==
    <<"A", "B", "C", "D", "E", "F", "G", "H", "I", "J", "K", "L", "M", "N",
      "O", "P", "Q", "R", "S", "T", "U", "V", "W", "X", "Y", "Z", "a", "b",
      "c", "d", "e", "f", "g", "h", "i", "j", "k", "l", "m", "n", "o", "p",
      "q", "r", "s", "t", "u", "v", "w", "x", "y", "z", "0", "1", "2", "3",
      "4", "5", "6", "7", "8", "9", "+", "/">>

Base64Value(c) == (CHOOSE i \in 1..64 : Base64Alphabet[i] = c) - 1

\* the bytes of one group of four characters
Base64Group(g) ==
    LET a == Base64Value(g[1])
        b == Base64Value(g[2])
    IN IF g[3] = "="
       THEN <<a * 4 + b \div 16>>
       ELSE LET c == Base64Value(g[3])
            IN IF g[4] = "="
               THEN <<a * 4 + b \div 16, (b % 16) * 16 + c \div 4>>
               ELSE <<a * 4 + b \div 16, (b % 16) * 16 + c \div 4,
                      (c % 4) * 64 + Base64Value(g[4])>>

RECURSIVE Base64Groups(_, _)
Base64Groups(data, i) ==
    IF i > Len(data) THEN <<>>
    ELSE Base64Group(SubSeq(data, i, i + 3)) \o Base64Groups(data, i + 4)

\* base64.b64decode
b64decode(data) == Base64Groups(data, 1)

(***************************************************************************)
(* The generation loops.  A path is <<directory, file name>>; a file's     *)
(* content is the sequence of the data written to it since it was last     *)
(* truncated.  Each script runs two loops over sizes, the normal icons     *)
(* and then the recording icons: job k is the k-th file of the run.        *)
(***************************************************************************)
sizes == <<16, 32, 48, 128>>

icons_dir == "icons"

NJobs == 2 * Len(sizes)

job_variant(k) == IF k <= Len(sizes) THEN "normal" ELSE "recording"
job_size(k) == sizes[((k - 1) % Len(sizes)) + 1]

\* f"icon-{size}.png"
normal_filename(size) == "icon-" \o ToString(size) \o ".png"
\* mutant of recording_filename: the recording loop reuses the normal name
recording_filename_same(size) == "icon-" \o ToString(size) \o ".png"
\* f"icon-recording-{size}.png"
recording_filename(size) == "icon-recording-" \o ToString(size) \o ".png"

job_filename(k) ==
    IF job_variant(k) = "normal" THEN normal_filename(job_size(k))
    ELSE recording_filename(job_size(k))

\* generate_icons.py writes f'{icons_dir}/...', the other two scripts a bare
\* file name, which is relative to the working directory
output_dir == IF script = "pil" THEN icons_dir ELSE "."

job_path(k) == <<output_dir, job_filename(k)>>

\* what job k writes
job_data(k) ==
    CASE script = "svg" ->
             IF job_variant(k) = "normal" THEN create_icon(job_size(k))
             ELSE create_recording_icon(job_size(k))
      [] script = "pil" -> pil_icon(job_variant(k), job_size(k))
      [] script = "base64" ->
             IF job_variant(k) = "normal" THEN b64decode(BLUE_PNG_BASE64)
             ELSE b64decode(RED_PNG_BASE64)

\* mutant of open_wb: the file is opened for appending
open_ab(old) == old
\* open(filename, 'wb') on a file of content old: the file is truncated
open_wb(old) == <<>>

Content(path) == IF path \in DOMAIN files THEN files[path] ELSE <<>>

\* mutant of uncaught: the error is swallowed and the loops go on
swallowed(k) == <<"write", k + 1>>
\* no script catches anything: an OSError raised at job k (0: makedirs)
\* ends the process there
uncaught(k) == <<"crashed", k>>

\* the lines a script prints when job k is written
created_lines(k) ==
    CASE script = "svg" ->
             <<"Created: " \o job_filename(k)>>
             \o (IF k = Len(sizes) THEN <<"", "Generating recording icons...">> ELSE <<>>)
      [] script = "pil" -> <<"Created " \o job_filename(k)>>
      [] script = "base64" -> <<"Created: " \o job_filename(k)>>

\* the lines a script prints after its loops
final_lines ==
    CASE script = "svg" ->
             <<"", "All icons generated successfully!", "These icons feature:",
               "- Blue background with record button and play arrow",
               "- Green corner indicators (on larger sizes)",
               "- Recording icons with red theme and white center dot">>
      [] script = "pil" -> <<"All icons generated successfully!">>
      [] script = "base64" ->
             <<"", "All icons created successfully!",
               "Note: These are minimal 1x1 pixel PNGs that Firefox will accept.",
               "They will appear as solid colored squares in the browser.">>

fs_call(name, arg, err) == [call |-> name, arg |-> arg, error |-> err]

\* no call has been applied to the buffer
NoCall == [op |-> "none"]

\* Spec holds no pixel buffer
NoBuffer ==
    /\ width = 0 /\ height = 0 /\ pixels = <<>>
    /\ call = NoCall /\ result = <<>>

Init ==
    /\ script \in {"svg", "pil", "base64"}
    /\ pc = <<"start", 0>>
    /\ run = 1
    /\ dirs \in {{"."}, {".", icons_dir}}
    /\ files = <<>>
    /\ fsops = <<>>
    /\ stdout = <<>>
    /\ NoBuffer

\* generate-icons-from-svg.py up to its first loop
SetupSvg ==
    /\ pc = <<"start", 0>>
    /\ script = "svg"
    /\ stdout' = <<"Generating normal icons...">>
    /\ pc' = <<"write", 1>>
    /\ UNCHANGED <<width, height, pixels, call, result, script, run, dirs, files, fsops>>

\* generate-base64-icons.py up to its first loop
SetupBase64 ==
    /\ pc = <<"start", 0>>
    /\ script = "base64"
    /\ pc' = <<"write", 1>>
    /\ UNCHANGED <<width, height, pixels, call, result, script, run, dirs, files,
                   fsops, stdout>>

\* generate_icons.py: if not os.path.exists(icons_dir): os.makedirs(icons_dir)
SetupPil ==
    /\ pc = <<"start", 0>>
    /\ script = "pil"
    /\ IF icons_dir \in dirs
       THEN UNCHANGED <<dirs, fsops>>
       ELSE /\ dirs' = dirs \cup {icons_dir}
            /\ fsops' = Append(fsops, fs_call("makedirs", icons_dir, FALSE))
    /\ pc' = <<"write", 1>>
    /\ UNCHANGED <<width, height, pixels, call, result, script, run, files, stdout>>

\* os.makedirs raises
MakedirsFails ==
    /\ pc = <<"start", 0>>
    /\ script = "pil"
    /\ icons_dir \notin dirs
    /\ fsops' = Append(fsops, fs_call("makedirs", icons_dir, TRUE))
    /\ pc' = uncaught(0)
    /\ UNCHANGED <<width, height, pixels, call, result, script, run, dirs, files, stdout>>

\* one pass of a loop: the file is opened, the icon made and written, the
\* file closed and the line printed
WriteIcon ==
    /\ pc[1] = "write"
    /\ pc[2] <= NJobs
    /\ output_dir \in dirs
    /\ LET k == pc[2]
           path == job_path(k)
       IN /\ fsops' = Append(fsops, fs_call("open", path, FALSE))
          /\ files' = (path :> Append(open_wb(Content(path)), job_data(k))) @@ files
          /\ stdout' = stdout \o created_lines(k)
          /\ pc' = <<"write", k + 1>>
    /\ UNCHANGED <<width, height, pixels, call, result, script, run, dirs>>

\* open() (Image.save's open) raises: nothing is touched
OpenFails ==
    /\ pc[1] = "write"
    /\ pc[2] <= NJobs
    /\ LET k == pc[2]
       IN /\ fsops' = Append(fsops, fs_call("open", job_path(k), TRUE))
          /\ pc' = uncaught(k)
    /\ UNCHANGED <<width, height, pixels, call, result, script, run, dirs, files, stdout>>

\* the file is opened and the write raises: the file is left truncated; a
\* file Image.save created itself may instead be removed by it
WriteFails ==
    /\ pc[1] = "write"
    /\ pc[2] <= NJobs
    /\ output_dir \in dirs
    /\ LET k == pc[2]
           path == job_path(k)
       IN /\ fsops' = Append(fsops, fs_call("write", path, TRUE))
          /\ \/ files' = (path :> open_wb(Content(path))) @@ files
             \/ /\ script = "pil"
                /\ path \notin DOMAIN files
                /\ files' = files
          /\ pc' = uncaught(k)
    /\ UNCHANGED <<width, height, pixels, call, result, script, run, dirs, stdout>>

\* after the loops
Finish ==
    /\ pc = <<"write", NJobs + 1>>
    /\ stdout' = stdout \o final_lines
    /\ pc' = <<"done", NJobs>>
    /\ UNCHANGED <<width, height, pixels, call, result, script, run, dirs, files, fsops>>

\* the script is run again, on the file system the last run left
Rerun ==
    /\ pc[1] \in {"done", "crashed"}
    /\ run < MaxRuns
    /\ run' = run + 1
    /\ pc' = <<"start", 0>>
    /\ fsops' = <<>>
    /\ stdout' = <<>>
    /\ UNCHANGED <<width, height, pixels, call, result, script, dirs, files>>

\* the steps of a running script
Step ==
    \/ SetupSvg
    \/ SetupBase64
    \/ SetupPil
    \/ MakedirsFails
    \/ WriteIcon
    \/ OpenFails
    \/ WriteFails
    \/ Finish

Next == Step \/ Rerun

Spec == Init /\ [][Next]_vars

\* a started script is a sequential process that keeps executing: it does
\* not stop between two statements
SpecFair == Spec /\ WF_vars(Step)

(***************************************************************************)
(* SpecPng: create_png applied to every buffer of at most MaxPixels pixels *)
(* over two colours (a side may be 0), and to the same buffers with the    *)
(* last pixel missing (the slices of create_png are cut to the buffer).    *)
(***************************************************************************)
PngColors == {TRANSPARENT, WHITE_SEMI}

\* the flat byte buffer of a sequence of pixels
Flatten(ps) == [i \in 1..(4 * Len(ps)) |-> ps[((i - 1) \div 4) + 1][((i - 1) % 4) + 1]]

\* every buffer of n pixels over the colours cs
Buffers(n, cs) == {Flatten(ps) : ps \in [1..n -> cs]}

\* the script is not running in SpecPng and SpecDraw
NoScript ==
    /\ script = "none" /\ pc = "none" /\ run = 0
    /\ dirs = {} /\ files = <<>> /\ fsops = <<>> /\ stdout = <<>>

InitPng ==
    /\ width \in 0..MaxPixels
    /\ height \in 0..MaxPixels
    /\ width * height <= MaxPixels
    /\ \E n \in {width * height, Max(width * height - 1, 0)} :
           pixels \in Buffers(n, PngColors)
    /\ call = NoCall
    /\ result = <<>>
    /\ NoScript

EncodePng ==
    /\ call.op = "none"
    /\ call' = [op |-> "create_png"]
    /\ result' = create_png(width, height, pixels)
    /\ UNCHANGED <<width, height, pixels, script, pc, run, dirs, files, fsops, stdout>>

NextPng == EncodePng

SpecPng == InitPng /\ [][NextPng]_vars

(***************************************************************************)
(* Reading a PNG stream back: the chunk that starts at byte pos.           *)
(***************************************************************************)
unpack_I(b) == ((b[1] * 256 + b[2]) * 256 + b[3]) * 256 + b[4]

\* b holds a whole chunk (length, type, payload, crc) at pos
HasChunk(b, pos) ==
    /\ pos >= 1
    /\ pos + 11 <= Len(b)
    /\ b[pos] < 128
    /\ pos + 11 + unpack_I(SubSeq(b, pos, pos + 3)) <= Len(b)

ChunkAt(b, pos) ==
    LET n == unpack_I(SubSeq(b, pos, pos + 3))
    IN [length |-> n,
        type   |-> SubSeq(b, pos + 4, pos + 7),
        data   |-> SubSeq(b, pos + 8, pos + 7 + n),
        crc    |-> SubSeq(b, pos + 8 + n, pos + 11 + n),
        next   |-> pos + 12 + n]

ChunkCrcOk(c) == c.crc = zlib_crc32(c.type \o c.data)

\* signature, IHDR, IDAT, zero-length IEND, nothing after, every CRC right
PngFraming(b) ==
    /\ Len(b) >= 8
    /\ SubSeq(b, 1, 8) = <<137, 80, 78, 71, 13, 10, 26, 10>>
    /\ HasChunk(b, 9)
    /\ LET c1 == ChunkAt(b, 9)
       IN /\ c1.type = <<73, 72, 68, 82>>
          /\ ChunkCrcOk(c1)
          /\ HasChunk(b, c1.next)
          /\ LET c2 == ChunkAt(b, c1.next)
             IN /\ c2.type = <<73, 68, 65, 84>>
                /\ ChunkCrcOk(c2)
                /\ HasChunk(b, c2.next)
                /\ LET c3 == ChunkAt(b, c2.next)
                   IN /\ c3.type = <<73, 69, 78, 68>>
                      /\ c3.length = 0
                      /\ ChunkCrcOk(c3)
                      /\ c3.next = Len(b) + 1

\* C2: the stream create_png returns is the signature, one IHDR chunk, one
\* IDAT chunk and one zero-length IEND chunk with nothing after it; each
\* chunk's length field is its payload's length and each stored CRC is the
\* CRC32 of the chunk's type and payload.
C2_PngFraming == (call.op = "create_png") => PngFraming(result)

\* create_png has encoded a 2x2 buffer holding both colours
C2_Witness ==
    /\ call.op = "create_png"
    /\ width = 2 /\ height = 2
    /\ pixels = TRANSPARENT \o WHITE_SEMI \o WHITE_SEMI \o TRANSPARENT
    /\ Len(result) > 8 + 25 + 12 + 12

(***************************************************************************)
(* SpecDraw: one call of draw_circle or draw_triangle on a buffer of       *)
(* 1..MaxSide by 1..MaxSide pixels filled with one colour.  Centres, radii *)
(* and vertices range over -1..MaxSide, so shapes lie inside, across and   *)
(* outside the buffer.  The three vertices are drawn in every order of     *)
(* their y coordinates; draw_triangle sorts them.                          *)
(***************************************************************************)
Backgrounds == {TRANSPARENT, BLUE_DARK, RED}
CircleColors == {TRANSPARENT, BLUE_DARK, WHITE_SEMI}
TriangleColors == {BLUE_DARK, WHITE_SEMI}

Coords == -1..MaxSide
Points == Coords \X Coords

\* x-major order on points, used to draw each set of vertices once
PointLeq(p, q) == p[1] < q[1] \/ (p[1] = q[1] /\ p[2] <= q[2])

InitDraw ==
    /\ width \in 1..MaxSide
    /\ height \in 1..MaxSide
    /\ \E bg \in Backgrounds : pixels = Flatten([i \in 1..(width * height) |-> bg])
    /\ call = NoCall
    /\ result = <<>>
    /\ NoScript

DrawCircle ==
    /\ call.op = "none"
    /\ \E cx \in Coords, cy \in Coords, radius \in Coords, color \in CircleColors :
           LET st == draw_circle(pixels, width, height, cx, cy, radius, color)
           IN /\ call' = [op |-> "draw_circle", buf |-> pixels, cx |-> cx, cy |-> cy,
                          radius |-> radius, color |-> color]
              /\ pixels' = st.pixels
              /\ result' = [written |-> st.written, raised |-> st.raised]
    /\ UNCHANGED <<width, height, script, pc, run, dirs, files, fsops, stdout>>

DrawTriangle ==
    /\ call.op = "none"
    /\ \E p1 \in Points, p2 \in Points, p3 \in Points, color \in TriangleColors :
           /\ PointLeq(p1, p2) /\ PointLeq(p2, p3)
           /\ LET st == draw_triangle(pixels, width, height, <<p1, p2, p3>>, color)
              IN /\ call' = [op |-> "draw_triangle", buf |-> pixels,
                             points |-> <<p1, p2, p3>>, color |-> color]
                 /\ pixels' = st.pixels
                 /\ result' = [written |-> st.written, raised |-> st.raised]
    /\ UNCHANGED <<width, height, script, pc, run, dirs, files, fsops, stdout>>

NextDraw == DrawCircle \/ DrawTriangle

SpecDraw == InitDraw /\ [][NextDraw]_vars

Drawn == call.op \in {"draw_circle", "draw_triangle"}

\* the pixel at (x, y) of a buffer w pixels wide
PixelAt(px, w, x, y) == SubSeq(px, (y * w + x) * 4 + 1, (y * w + x) * 4 + 4)

InBuffer(x, y) == x \in 0..(width - 1) /\ y \in 0..(height - 1)

WrittenSet == {result.written[i] : i \in 1..Len(result.written)}

\* C1: every pixel draw_circle or draw_triangle writes has x in [0, width)
\* and y in [0, height), wherever the shape lies, and the buffer keeps its
\* length width*height*4.
C1_WritesInBounds ==
    Drawn =>
        /\ \A p \in WrittenSet : InBuffer(p[1], p[2])
        /\ result.raised = ""
        /\ Len(pixels) = width * height * 4

\* a circle whose bounding box leaves the buffer on the right and below has
\* written the last pixel of the buffer
C1_Witness ==
    /\ call.op = "draw_circle"
    /\ call.cx + call.radius >= width
    /\ call.cy + call.radius >= height
    /\ <<width - 1, height - 1>> \in WrittenSet

\* C7: a pixel that was opaque and is covered by draw_triangle with a colour
\* of alpha 255 ends equal to that colour in all four channels.
C7_OpaqueTriangleExact ==
    (call.op = "draw_triangle" /\ call.color[4] = 255) =>
        \A p \in WrittenSet :
            PixelAt(call.buf, width, p[1], p[2])[4] = 255
                => PixelAt(pixels, width, p[1], p[2]) = call.color

\* an opaque triangle has covered an opaque pixel of another colour
C7_Witness ==
    /\ call.op = "draw_triangle"
    /\ call.color = BLUE_DARK
    /\ \E p \in WrittenSet : PixelAt(call.buf, width, p[1], p[2]) = RED

Degenerate(points) ==
    \A i \in 1..3 : \A j \in 1..3 : points[i][2] = points[j][2]

\* C8: draw_triangle with three vertices of equal y returns without raising
\* and leaves every byte of the buffer as it was.
C8_DegenerateNoOp ==
    (call.op = "draw_triangle" /\ Degenerate(call.points)) =>
        /\ result.raised = ""
        /\ pixels = call.buf

\* a degenerate triangle on a scanline of the buffer, three distinct
\* vertices spanning it
C8_Witness ==
    /\ call.op = "draw_triangle"
    /\ Degenerate(call.points)
    /\ call.points[1][2] \in 0..(height - 1)
    /\ call.points[1][1] < 0
    /\ call.points[3][1] >= width
    /\ call.points[2][1] = 0

InCircle(x, y) ==
    (x - call.cx) * (x - call.cx) + (y - call.cy) * (y - call.cy)
        <= call.radius * call.radius

\* C10 as stated: after draw_circle a pixel of the buffer equals the colour
\* if and only if it lies in the circle, and every other pixel is unchanged.
C10_AsStated ==
    (call.op = "draw_circle") =>
        \A x \in 0..(width - 1) : \A y \in 0..(height - 1) :
            /\ (PixelAt(pixels, width, x, y) = call.color) <=> InCircle(x, y)
            /\ ~InCircle(x, y)
                  => PixelAt(pixels, width, x, y) = PixelAt(call.buf, width, x, y)

\* C10 amended: after draw_circle with radius >= 0 every pixel of the
\* buffer that lies in the circle equals the colour exactly (overwritten,
\* not blended), and every other pixel keeps the value it had before the
\* call, which may be that same colour; with a negative radius no pixel
\* changes.
C10_CircleOverwrites ==
    (call.op = "draw_circle") =>
        /\ Len(pixels) = width * height * 4
        /\ \A x \in 0..(width - 1) : \A y \in 0..(height - 1) :
              PixelAt(pixels, width, x, y) =
                  IF call.radius >= 0 /\ InCircle(x, y) THEN call.color
                  ELSE PixelAt(call.buf, width, x, y)

\* a semi-transparent circle has replaced, unblended, some opaque pixels of
\* the buffer and left others
C10_Witness ==
    /\ call.op = "draw_circle"
    /\ call.color = WHITE_SEMI
    /\ call.buf = Flatten([i \in 1..(width * height) |-> RED])
    /\ \E x \in 0..(width - 1) : \E y \in 0..(height - 1) :
           PixelAt(pixels, width, x, y) = WHITE_SEMI
    /\ \E x \in 0..(width - 1) : \E y \in 0..(height - 1) :
           PixelAt(pixels, width, x, y) = RED

(***************************************************************************)
(* Claims about a run of a script.                                         *)
(***************************************************************************)
\* the eight icons, in generation order, with the names they are to have
IconFiles ==
    <<[variant |-> "normal", size |-> 16, name |-> "icon-16.png"],
      [variant |-> "normal", size |-> 32, name |-> "icon-32.png"],
      [variant |-> "normal", size |-> 48, name |-> "icon-48.png"],
      [variant |-> "normal", size |-> 128, name |-> "icon-128.png"],
      [variant |-> "recording", size |-> 16, name |-> "icon-recording-16.png"],
      [variant |-> "recording", size |-> 32, name |-> "icon-recording-32.png"],
      [variant |-> "recording", size |-> 48, name |-> "icon-recording-48.png"],
      [variant |-> "recording", size |-> 128, name |-> "icon-recording-128.png"]>>

IconPath(i) == <<IF script = "pil" THEN "icons" ELSE ".", IconFiles[i].name>>

\* icon i has been written whole: its file holds one piece of data
Written(i) == IconPath(i) \in DOMAIN files /\ Len(files[IconPath(i)]) = 1

\* the first 33 bytes of a file written by the svg or the base64 script
FileHead(i) ==
    IF script = "svg" THEN png_head(files[IconPath(i)][1])
    ELSE SubSeq(files[IconPath(i)][1], 1, 33)

\* the head is a PNG signature and an IHDR chunk declaring w x h, 8-bit RGBA
DeclaresRGBA(head, w, h) ==
    /\ SubSeq(head, 1, 8) = <<137, 80, 78, 71, 13, 10, 26, 10>>
    /\ HasChunk(head, 9)
    /\ LET c == ChunkAt(head, 9)
       IN /\ c.type = <<73, 72, 68, 82>>
          /\ c.length = 13
          /\ unpack_I(SubSeq(c.data, 1, 4)) = w
          /\ unpack_I(SubSeq(c.data, 5, 8)) = h
          /\ c.data[9] = 8
          /\ c.data[10] = 6

\* C3 as stated: for every size s and both variants the file written under
\* the name for s is a PNG whose IHDR declares s x s, bit depth 8, colour
\* type 6.
C3_AsStated ==
    (script \in {"svg", "base64"}) =>
        \A i \in 1..Len(IconFiles) :
            Written(i) => DeclaresRGBA(FileHead(i), IconFiles[i].size, IconFiles[i].size)

\* C3 amended: for every size s and both variants, the file that
\* generate-icons-from-svg.py writes under the name for s is a PNG whose IHDR
\* declares s x s, bit depth 8, colour type 6; the file that
\* generate-base64-icons.py writes under that name declares 1 x 1, bit
\* depth 8, colour type 6, whatever s is.
C3_IhdrOfWrittenIcons ==
    \A i \in 1..Len(IconFiles) :
        Written(i) =>
            /\ script = "svg"
                  => DeclaresRGBA(FileHead(i), IconFiles[i].size, IconFiles[i].size)
            /\ script = "base64" => DeclaresRGBA(FileHead(i), 1, 1)

\* generate-icons-from-svg.py has written the size-128 normal icon
C3_Witness == script = "svg" /\ Written(4) /\ IconFiles[4].size = 128

\* the paths of the files this run has opened or tried to open
RECURSIVE OpenedPaths(_)
OpenedPaths(ops) ==
    IF ops = <<>> THEN <<>>
    ELSE (IF Head(ops).call = "makedirs" THEN <<>> ELSE <<Head(ops).arg>>)
         \o OpenedPaths(Tail(ops))

\* the state a run that met no file system error ends in
EightFilesWritten ==
    /\ OpenedPaths(fsops) = [i \in 1..Len(IconFiles) |-> IconPath(i)]
    /\ \A i \in 1..Len(IconFiles) : Written(i)
    /\ \A i \in 1..Len(IconFiles) : IconPath(i)[1] \in dirs
    /\ \A i \in 1..Len(fsops) : ~fsops[i].error

\* C4: a started run ends, either on a file system call that failed or
\* normally; a run that ended normally met no file system error and has
\* written exactly the eight files icon-{16,32,48,128}.png and
\* icon-recording-{16,32,48,128}.png, one per variant and size, into one
\* fixed directory, which exists at the end although it may not have
\* existed before.
C4_EightFilesWritten ==
    /\ [](pc[1] = "done" => EightFilesWritten)
    /\ (pc[1] = "start")
          ~> (pc[1] = "done" \/ (pc[1] = "crashed" /\ fsops[Len(fsops)].error))

\* generate_icons.py has finished a first run that had to create icons/
C4_Witness ==
    /\ pc[1] = "done"
    /\ script = "pil"
    /\ run = 1
    /\ fsops[1] = [call |-> "makedirs", arg |-> "icons", error |-> FALSE]
    /\ Cardinality(DOMAIN files) = 8

SuccessLines == {"All icons generated successfully!", "All icons created successfully!"}

\* C5: once a file system call of the run has failed, it is the last call
\* the run makes (no retry, no later file is opened), the run has ended
\* there, and no success message is printed; the files opened before it are
\* the first files of the generation order.
C5_ErrorEndsRun ==
    \A i \in 1..Len(fsops) :
        fsops[i].error =>
            /\ i = Len(fsops)
            /\ pc[1] = "crashed"
            /\ ~ENABLED Step
            /\ \A j \in 1..Len(stdout) : stdout[j] \notin SuccessLines
            /\ LET opens == OpenedPaths(fsops)
               IN /\ Len(opens) <= Len(IconFiles)
                  /\ \A j \in 1..Len(opens) : opens[j] = IconPath(j)

\* the write of the third file has failed after two files were written
C5_Witness ==
    /\ pc = <<"crashed", 3>>
    /\ Len(fsops) >= 3
    /\ fsops[Len(fsops)].call = "write"
    /\ fsops[Len(fsops)].error
    /\ Written(1) /\ Written(2)

Shapes(i) == files[IconPath(i)][1].shapes

NumTriangles(i) ==
    Cardinality({j \in 1..Len(Shapes(i)) : Shapes(i)[j].shape = "triangle"})

\* the circles of icon i that are not centred on the icon
OffCentre(i) ==
    {j \in 1..Len(Shapes(i)) :
        /\ Shapes(i)[j].shape = "circle"
        /\ <<Shapes(i)[j].cx, Shapes(i)[j].cy>>
              # <<IconFiles[i].size \div 2, IconFiles[i].size \div 2>>}

\* C6: in the recipes of generate-icons-from-svg.py the play-arrow triangle
\* is drawn exactly for the normal icons of size >= 32 and the four corner
\* dots exactly for the icons, of both variants, of size >= 48; the smaller
\* sizes have neither.
C6_ConditionalDetail ==
    (script = "svg") =>
        \A i \in 1..Len(IconFiles) :
            Written(i) =>
                /\ NumTriangles(i) =
                      IF IconFiles[i].variant = "normal" /\ IconFiles[i].size >= 32
                      THEN 1 ELSE 0
                /\ Cardinality(OffCentre(i)) = IF IconFiles[i].size >= 48 THEN 4 ELSE 0

\* generate-icons-from-svg.py has written all eight icons
C6_Witness ==
    /\ script = "svg"
    /\ pc[1] = "done"
    /\ \A i \in 1..Len(IconFiles) : Written(i)
    /\ NumTriangles(2) = 1
    /\ NumTriangles(1) = 0

=============================================================================
